---------------------------- MODULE Spec2Model ----------------------------
(*
  A model of the write-ahead log github.com/yudhasubki/wal.

  The engine (type WAL, src/wal.go) is one state machine: its fields are the
  variables below, every public operation is one action, and the helpers the
  operations call (flushBuffer, Sync, createSegment, deleteSegments,
  Segment.Read, Segment.ReadEntry, Segment.SeekOffset) are operators on an
  engine-state record that the actions thread through in the order of the code.

  Bytes.  A byte stream (a segment file, the write buffer, a bufio.Writer's
  pending bytes) is a sequence of chunks [e, n]: the first n bytes of the
  encoding of record e.  Every chunk but the last of a file is whole
  (n = blockSize + e.length); the last chunk of a file is shorter when a crash
  cut a flush.  Offsets, sizes and the slices the code takes are byte counts
  over these streams.  The timestamp field of the header is left out: no
  operation reads it back.
*)
EXTENDS Integers, Sequences, FiniteSets, TLC

VARIABLES
    alive,          \* an engine object exists (New returned it, not yet closed/crashed)
    disk,           \* the directory: segment index (file name) -> byte stream
    segments,       \* WAL.segments
    segmentIndex,   \* WAL.segmentIndex
    segmentFile,    \* WAL.segmentFile (uint16)
    buffer,         \* WAL.buffer: the WALBuffer the engine holds
    pool,           \* walBufferPool: buffers put back and not taken again
    lru,            \* WAL.lru: logical index -> *LogEntry
    pos,            \* WAL.pos
    segmentNotify,  \* len(WAL.segmentNotify), a channel of capacity 1
    blocked,        \* a Write or Close sits in `w.segmentNotify <- true` holding w.mu
    maxSegmentFile, \* option.maxSegmentFile
    maxFileLifetime, \* option.maxFileLifetime: New starts the janitor when > 0
    last,           \* the last New, Write, Sync or Close: its name and outcome
    hist,           \* history: payloads written, by logical index
    synced,         \* history: how many of hist a completed flush covers
    retention,      \* history: a bulk-clear or Delete has happened
    crashed,        \* history: the process has crashed at least once
    corrupted,      \* history: a byte of a record in a file has been altered
    dropped,        \* history: the pool gave Write another buffer than it put
    mustSurvive,    \* history: the flushed prefix of hist at the last crash
    janitorSeg,     \* the janitor's local `seg`: the index of the segment it took
    janitorAt,      \* where the janitor goroutine stands in its loop
    writeAt,        \* where a Write that holds w.mu stands in its rotation
    nWrites,        \* bound counters
    nOpens

vars == <<alive, disk, segments, segmentIndex, segmentFile, buffer, pool, lru,
          pos, segmentNotify, blocked, maxSegmentFile, maxFileLifetime, last,
          hist, synced, retention, crashed, corrupted, dropped, mustSurvive,
          janitorSeg, janitorAt, writeAt, nWrites, nOpens>>

-----------------------------------------------------------------------------
(* Bounds of the model *)

MaxWrites == 4      \* Write calls in a behaviour
MaxOpens == 1       \* New calls after the first
MaxPool == 0        \* buffers the pool retains at once

(* Program constants and the options the model runs with *)

blockSize == 16
maxWriteBufferSize == 40     \* WithMaxWriteBufferSize(40)
maxSegmentSize == 48         \* WithMaxSegmentSize(48)
MaxSegmentFileChoices == {0, 2}
MaxFileLifetimeChoices == {0, 1}
Uint16 == 65536

cacheSize == 1

(* Payloads: the k-th Write of a behaviour writes the empty payload or 8 bytes
   of its own, so that a record takes 16 or 24 bytes and no two non-empty
   payloads are equal.  The bytes are chosen for CRC-32 values that fit the
   32-bit integers of TLC. *)
Tag == <<1, 6, 7, 8, 9, 14, 1, 6, 7, 8>>
Eight(b) == <<b, b, b, b, b, b, b, b>>
Payloads(k) == {<<>>, Eight(Tag[k])}

-----------------------------------------------------------------------------
(* Record codec *)

\* crc32.ChecksumIEEE on the payloads of the model and on those payloads with
\* bit 1 of the first byte or bit 0 of the last byte flipped
ChecksumIEEE(data) ==
    CASE data = <<>>      -> 0
      [] data = Eight(1)  -> 782312147
      [] data = Eight(6)  -> 123458740
      [] data = Eight(7)  -> 1289234702
      [] data = Eight(8)  -> 1420703866
      [] data = Eight(9)  -> 523093440
      [] data = Eight(14) -> 920073127
      [] data = <<3, 1, 1, 1, 1, 1, 1, 1>>        -> 1820599726
      [] data = <<1, 1, 1, 1, 1, 1, 1, 0>>        -> 1504055877
      [] data = <<4, 6, 6, 6, 6, 6, 6, 6>>        -> 1165939657
      [] data = <<6, 6, 6, 6, 6, 6, 6, 7>>        -> 1885135906
      [] data = <<5, 7, 7, 7, 7, 7, 7, 7>>        -> 251473523
      [] data = <<7, 7, 7, 7, 7, 7, 7, 6>>        -> 1004476824
      [] data = <<10, 8, 8, 8, 8, 8, 8, 8>>       -> 378224391
      [] data = <<8, 8, 8, 8, 8, 8, 8, 9>>        -> 598280428
      [] data = <<11, 9, 9, 9, 9, 9, 9, 9>>       -> 1560855229
      [] data = <<9, 9, 9, 9, 9, 9, 9, 8>>        -> 1747645782
      [] data = <<12, 14, 14, 14, 14, 14, 14, 14>> -> 1962030298
      [] data = <<14, 14, 14, 14, 14, 14, 14, 15>> -> 1104151345

\* The header fields and payload Write lays out in `entry`
Encode(data) ==
    [length |-> Len(data), checksum |-> ChecksumIEEE(data), data |-> data]

EntrySize(e) == blockSize + e.length

Whole(e) == [e |-> e, n |-> EntrySize(e)]

RECURSIVE Bytes(_)
Bytes(chunks) ==
    IF chunks = <<>> THEN 0
    ELSE chunks[Len(chunks)].n + Bytes(SubSeq(chunks, 1, Len(chunks) - 1))

\* the byte offset at which chunk k of a stream starts
Start(chunks, k) == Bytes(SubSeq(chunks, 1, k - 1))

NoEntry == [Offset |-> 0, Length |-> 0, Data |-> <<>>, Checksum |-> 0]

Result(err, entry) == [err |-> err, entry |-> entry]

\* Segment.ReadEntry on a reader that stands at byte `off` of `chunks` and can
\* deliver `avail` more bytes.  io.ReadFull gives io.EOF when it read nothing,
\* io.ErrUnexpectedEOF when it read part.  A reader that does not stand at the
\* start of a record decodes bytes that are no header: "garbage".
ReadEntry(chunks, off, avail) ==
    LET at == {k \in 1..Len(chunks) : Start(chunks, k) = off}
    IN  IF avail <= 0 THEN Result("EOF", NoEntry)
        ELSE IF avail < blockSize THEN Result("ErrUnexpectedEOF", NoEntry)
        ELSE IF at = {} THEN Result("garbage", NoEntry)
        ELSE LET e == chunks[CHOOSE k \in at : \A j \in at : k <= j].e
             IN  IF avail - blockSize >= e.length
                 THEN Result("nil", [Offset |-> blockSize + e.length,
                                     Length |-> e.length,
                                     Data |-> e.data,
                                     Checksum |-> e.checksum])
                 ELSE IF avail - blockSize = 0 THEN Result("EOF", NoEntry)
                 ELSE Result("ErrUnexpectedEOF", NoEntry)

\* pos.EndOffset
EndOffset(p) == p.offset + blockSize + p.length

\* Segment.OnActiveBuffer
OnActiveBuffer(s, idx) ==
    s.offset[idx].offset > s.currSize \/ s.currSize = 0

\* w.buffer.buf.Bytes()[lo:hi] handed to ReadEntry: the slice expression
\* panics when hi is beyond the buffer (the model takes capacity = length)
BufferRead(buf, lo, hi) ==
    IF lo < 0 \/ hi > Bytes(buf) THEN Result("panic", NoEntry)
    ELSE ReadEntry(buf, lo, hi - lo)

\* Segment.SeekOffset on an open handle of file f
SeekOffset(f, offset) == ReadEntry(f, offset, Bytes(f) - offset)

-----------------------------------------------------------------------------
(* The engine's helpers, as operators on an engine-state record.
   err is the error the helper returned ("nil" when none); blocked, flushed,
   rotated and cleared report how far flushBuffer came. *)

Engine ==
    [segments |-> segments, disk |-> disk, buffer |-> buffer, pos |-> pos,
     segmentIndex |-> segmentIndex, segmentFile |-> segmentFile,
     segmentNotify |-> segmentNotify, err |-> "nil", blocked |-> FALSE,
     flushed |-> FALSE, rotated |-> FALSE, cleared |-> FALSE]

\* the directory with file `name` holding `content`
WithFile(d, name, content) ==
    [i \in DOMAIN d \cup {name} |-> IF i = name THEN content ELSE d[i]]

\* the directory without the files `names`
WithoutFiles(d, names) == [i \in DOMAIN d \ names |-> d[i]]

\* WAL.createSegment: O_APPEND|O_CREATE keeps a file that is already there
createSegment(st) ==
    [st EXCEPT
        !.disk = IF st.segmentIndex \in DOMAIN st.disk THEN st.disk
                 ELSE WithFile(st.disk, st.segmentIndex, <<>>),
        !.segments = Append(@, [index |-> st.segmentIndex,
                                size |-> 0,
                                currSize |-> 0,
                                offset |-> <<>>,
                                writer |-> <<>>,
                                closed |-> FALSE,
                                fdOpen |-> TRUE]),
        !.segmentIndex = @ + 1,
        !.segmentFile = (@ + 1) % Uint16]

\* WAL.CurrentSegment, as a position in the list
CurrentSegment(st) == Len(st.segments)

\* a Sync that first empties the write buffer into the writer
SyncDraining(st) ==
    LET n == CurrentSegment(st)
        curr == st.segments[n]
    IN  IF ~curr.fdOpen THEN [st EXCEPT !.err = "ErrClosed"]
        ELSE LET file == st.disk[curr.index] \o curr.writer \o st.buffer
             IN  [st EXCEPT !.disk[curr.index] = file,
                            !.buffer = <<>>,
                            !.segments[n].writer = <<>>,
                            !.segments[n].currSize = Bytes(file)]

\* WAL.Sync: writer.Flush, fd.Sync, fd.Stat.  Writing through a closed handle
\* fails and the bufio.Writer keeps its bytes.
Sync(st) ==
    LET n == CurrentSegment(st)
        curr == st.segments[n]
    IN  IF ~curr.fdOpen THEN [st EXCEPT !.err = "ErrClosed"]
        ELSE LET file == st.disk[curr.index] \o curr.writer
             IN  [st EXCEPT !.disk[curr.index] = file,
                            !.segments[n].writer = <<>>,
                            !.segments[n].currSize = Bytes(file)]

\* WAL.deleteSegments: close and unlink every segment in order; the first
\* os.Remove that fails ends it with the list and pos as they were
RECURSIVE removeFrom(_, _)
removeFrom(st, i) ==
    IF i > Len(st.segments)
    THEN [st EXCEPT !.segments = <<>>, !.pos = 0]
    ELSE LET seg == st.segments[i]
             shut == [st EXCEPT !.segments[i].fdOpen = FALSE]
         IN  IF seg.index \notin DOMAIN st.disk
             THEN [shut EXCEPT !.err = "ErrNotExist"]
             ELSE removeFrom([shut EXCEPT !.disk = WithoutFiles(@, {seg.index})], i + 1)

deleteSegments(st) == removeFrom(st, 1)

\* a rotation test that lets a segment of exactly maxSegmentSize go on
exceededMaxSegmentSize(size) == size > maxSegmentSize

\* the rotation test of flushBuffer
reachedMaxSegmentSize(size) == size >= maxSegmentSize

\* a retention test that clears one rotation early
filledMaxSegmentFile(st) == Len(st.segments) + 1 >= maxSegmentFile

\* the retention test of flushBuffer
reachedMaxSegmentFile(st) == Len(st.segments) + 1 > maxSegmentFile

\* the send `w.segmentNotify <- true` on the channel of capacity 1
\* (the send waits for room until the janitor, if New started one, receives)
notifyJanitor(st) ==
    IF st.segmentNotify >= 1 THEN [st EXCEPT !.blocked = TRUE]
    ELSE [st EXCEPT !.segmentNotify = @ + 1]

\* the rotation branch of flushBuffer
rotate(st) ==
    LET n == CurrentSegment(st)
        reachMaxFile == reachedMaxSegmentFile(st)
        kept == IF reachMaxFile THEN deleteSegments(st) ELSE st
    IN  IF kept.err # "nil" THEN kept
        ELSE LET created == createSegment(kept)
                 marked == IF reachMaxFile
                           THEN [created EXCEPT !.cleared = TRUE]
                           ELSE [created EXCEPT !.segments[n].closed = TRUE]
                 done == [marked EXCEPT !.rotated = TRUE]
             IN  IF reachMaxFile THEN notifyJanitor(done) ELSE done

\* WAL.flushBuffer.  WALBuffer.Flush empties the buffer into the segment's
\* bufio.Writer whatever happens next.
flushBuffer(st) ==
    LET n == CurrentSegment(st)
        drained == [st EXCEPT !.segments[n].writer = @ \o st.buffer,
                              !.buffer = <<>>]
        written == Sync(drained)
        flushed == [written EXCEPT !.flushed = TRUE]
    IN  IF written.err # "nil" THEN written
        ELSE IF reachedMaxSegmentSize(flushed.segments[n].size) THEN rotate(flushed)
        ELSE flushed

-----------------------------------------------------------------------------
(* Reads *)

Walked(res, opened) == [res |-> res, opened |-> opened]

\* The segment loop of WAL.ReadIndex (after the LRU miss).  `opened` is the
\* position of the segment the file branch opened and closed again, 0 if none.
\* A failed buffer read falls out of the branch and the loop goes on with
\* currOffset as it was.
RECURSIVE locate(_, _, _, _)
locate(index, i, currOffset, prevNext) ==
    IF i > Len(segments) THEN Walked(Result("NotFound", NoEntry), 0)
    ELSE
      LET seg == segments[i]
          nextOffset == prevNext + Len(seg.offset)
          currIndex == index - currOffset + 1
      IN  IF index >= currOffset /\ index < nextOffset
          THEN IF currIndex > Len(seg.offset)
               THEN Walked(Result("panic", NoEntry), 0)
               ELSE
                 LET offset == seg.offset[currIndex]
                     fromBuffer == BufferRead(buffer,
                                              offset.offset - seg.currSize,
                                              EndOffset(offset) - seg.currSize)
                 IN  IF ~seg.closed /\ OnActiveBuffer(seg, currIndex)
                     THEN IF fromBuffer.err \in {"nil", "panic", "garbage"}
                          THEN Walked(fromBuffer, 0)
                          ELSE locate(index, i + 1, currOffset, nextOffset)
                     ELSE IF seg.index \notin DOMAIN disk
                          THEN Walked(Result("ErrNotExist", NoEntry), 0)
                          ELSE Walked(SeekOffset(disk[seg.index], offset.offset), i)
          ELSE locate(index, i + 1, nextOffset, nextOffset)

\* lru.Cache, most recently used first
Cached(index) == {k \in 1..Len(lru) : lru[k].key = index}

\* lru.Cache.Get: the entry moves to the front
lruGet(index) ==
    LET k == CHOOSE k \in Cached(index) : TRUE
    IN  <<lru[k]>> \o SubSeq(lru, 1, k - 1) \o SubSeq(lru, k + 1, Len(lru))

\* lru.Cache.Add of a key that is not cached: the oldest entry goes when the
\* cache is full
lruAdd(index, entry) ==
    SubSeq(<<[key |-> index, value |-> entry]>> \o lru, 1, cacheSize)

\* What WAL.ReadIndex(index) returns in the current state
ReadIndexResult(index) ==
    IF Cached(index) # {}
    THEN Result("nil", lru[CHOOSE k \in Cached(index) : TRUE].value)
    ELSE locate(index, 1, 0, 0).res

\* WAL.CurrentPosition
CurrentPosition == pos - 1

\* WAL.ActiveSegmentIndex
ActiveSegmentIndex == segments[Len(segments)].index

Delivered(out, err, stop) == [out |-> out, err |-> err, stop |-> stop]

\* The record loop of WAL.Iter and WAL.IterReverse over one segment, from
\* position `index` in steps of `step`.  `usable` says whether seg.fd is open.
\* The callback returns false on its stopAt-th call (never when stopAt = 0).
RECURSIVE walkSegment(_, _, _, _, _, _)
walkSegment(seg, usable, index, step, out, stopAt) ==
    IF index < 1 \/ index > Len(seg.offset) THEN Delivered(out, "nil", FALSE)
    ELSE
      LET offset == seg.offset[index]
          inBuffer == OnActiveBuffer(seg, index)
          r == IF inBuffer
               THEN BufferRead(buffer, offset.offset - seg.currSize,
                               EndOffset(offset) - seg.currSize)
               ELSE IF ~usable THEN Result("ErrClosed", NoEntry)
               ELSE SeekOffset(disk[seg.index], offset.offset)
          out2 == Append(out, [index |-> index - 1, data |-> r.entry.Data])
      IN  IF r.err = "nil"
          THEN IF Len(out2) = stopAt THEN Delivered(out2, "nil", TRUE)
               ELSE walkSegment(seg, usable, index + step, step, out2, stopAt)
          ELSE IF r.err = "EOF" /\ ~inBuffer THEN Delivered(out, "nil", FALSE)
          ELSE Delivered(out, r.err, TRUE)

Iterated(segs, out, err) == [segments |-> segs, out |-> out, err |-> err]

\* Segment.Open: opens the segment's file for reading
SegmentOpen(segs, i) == [segs EXCEPT ![i].fdOpen = TRUE]

\* Segment.Close: closes the segment's handle
SegmentClose(segs, i) == [segs EXCEPT ![i].fdOpen = FALSE]

\* The segment loop of WAL.Iter (step = 1) and WAL.IterReverse (step = -1)
RECURSIVE walkSegments(_, _, _, _, _)
walkSegments(segs, i, step, out, stopAt) ==
    IF i < 1 \/ i > Len(segs) THEN Iterated(segs, out, "nil")
    ELSE
      LET seg == segs[i]
          first == IF step = 1 THEN 1 ELSE Len(seg.offset)
          opened == IF seg.closed THEN SegmentOpen(segs, i) ELSE segs
          r == walkSegment(seg, opened[i].fdOpen, first, step, out, stopAt)
          shut == IF seg.closed THEN SegmentClose(opened, i) ELSE opened
      IN  IF seg.closed /\ seg.index \notin DOMAIN disk
          THEN Iterated(segs, out, "ErrNotExist")
          ELSE IF r.err # "nil" THEN Iterated(opened, r.out, r.err)
          ELSE IF r.stop THEN Iterated(shut, r.out, "nil")
          ELSE walkSegments(shut, i + step, step, r.out, stopAt)

-----------------------------------------------------------------------------
(* Recovery *)

\* a decode loop that does not compare the checksums
RECURSIVE readFromUnchecked(_, _, _)
readFromUnchecked(f, offset, positions) ==
    LET r == ReadEntry(f, offset, Bytes(f) - offset)
    IN  IF r.err = "EOF"
        THEN [err |-> "nil", offset |-> positions, size |-> offset]
        ELSE IF r.err # "nil"
        THEN [err |-> r.err, offset |-> positions, size |-> offset]
        ELSE readFromUnchecked(f, offset + r.entry.Offset,
                               Append(positions, [offset |-> offset,
                                                  length |-> r.entry.Length]))

\* The decode loop of Segment.Read over file f: the positions it rebuilds and
\* the logical size, or the error that ends New
RECURSIVE readFrom(_, _, _)
readFrom(f, offset, positions) ==
    LET r == ReadEntry(f, offset, Bytes(f) - offset)
    IN  IF r.err = "EOF"
        THEN [err |-> "nil", offset |-> positions, size |-> offset]
        ELSE IF r.err # "nil"
        THEN [err |-> r.err, offset |-> positions, size |-> offset]
        ELSE IF r.entry.Checksum # ChecksumIEEE(r.entry.Data)
        THEN [err |-> "checksum mismatch", offset |-> positions, size |-> offset]
        ELSE readFrom(f, offset + r.entry.Offset,
                      Append(positions, [offset |-> offset,
                                         length |-> r.entry.Length]))

\* Segment.Read
SegmentRead(f) == readFrom(f, 0, <<>>)

\* filepath.Walk visits the names in lexical order, which is the numeric
\* order of the zero-padded indexes
RECURSIVE WalkOrder(_)
WalkOrder(names) ==
    IF names = {} THEN <<>>
    ELSE LET least == CHOOSE n \in names : \A m \in names : n <= m
         IN  <<least>> \o WalkOrder(names \ {least})

\* WAL.LoadSegments over the files `order`, from the k-th on
RECURSIVE loadFrom(_, _, _)
loadFrom(st, order, k) ==
    IF k > Len(order) THEN st
    ELSE
      LET name == order[k]
          f == st.disk[name]
          read == SegmentRead(f)
          segment == [index |-> name,
                      size |-> read.size,
                      currSize |-> Bytes(f),
                      offset |-> read.offset,
                      writer |-> <<>>,
                      closed |-> TRUE,
                      fdOpen |-> FALSE]
      IN  IF read.err # "nil" THEN [st EXCEPT !.err = read.err]
          ELSE loadFrom([st EXCEPT !.segments = Append(@, segment),
                                   !.segmentIndex = name + 1,
                                   !.segmentFile = (@ + 1) % Uint16,
                                   !.pos = @ + Len(read.offset)],
                        order, k + 1)

LoadSegments(st) == loadFrom(st, WalkOrder(DOMAIN st.disk), 1)

\* walBufferPool.Put then walBufferPool.Get, as Write does them: sync.Pool may
\* drop what is put, and Get returns any pooled buffer or a new one.  Each
\* outcome is <<the buffer got, the pool left>>.
PutThenGet(buf, p) ==
    LET room == buf # <<>> /\ Cardinality(p \cup {buf}) <= MaxPool
    IN  {<<buf, p>>, <<<<>>, p>>}
        \cup {<<b, p \ {b}>> : b \in p}
        \cup (IF room THEN {<<<<>>, p \cup {buf}>>} ELSE {})
        \cup (IF room THEN {<<b, (p \ {b}) \cup {buf}>> : b \in p} ELSE {})

\* walBufferPool.Get, as New does it
Get(p) == {<<<<>>, p>>} \cup {<<b, p \ {b}>> : b \in p}

-----------------------------------------------------------------------------
(* The operations *)

\* op returned err; arg is the payload of a Write; flushed says whether its
\* flushBuffer came past Sync
Op(op, err, arg, flushed) ==
    [op |-> op, err |-> err, arg |-> arg, flushed |-> flushed]

\* the engine fields an operator on the engine-state record may have changed
Store(st) ==
    /\ segments' = st.segments
    /\ disk' = st.disk
    /\ pos' = st.pos
    /\ segmentIndex' = st.segmentIndex
    /\ segmentFile' = st.segmentFile
    /\ segmentNotify' = st.segmentNotify

\* the history after a flush that did `st`
Flushed(st, h) ==
    /\ hist' = IF st.cleared THEN <<>> ELSE h
    /\ synced' = IF st.cleared THEN 0
                 ELSE IF st.flushed THEN Len(h) ELSE synced
    /\ retention' = (retention \/ st.cleared)

\* no engine: the fields of an engine that was never built
NoEngine ==
    /\ alive' = FALSE
    /\ segments' = <<>>
    /\ segmentIndex' = 0
    /\ segmentFile' = 0
    /\ buffer' = <<>>
    /\ lru' = <<>>
    /\ pos' = 0
    /\ segmentNotify' = 0
    /\ blocked' = FALSE

\* the process dies: the engine and the pool are gone, the files stay
Dies ==
    /\ NoEngine
    /\ pool' = {}
    /\ crashed' = TRUE
    /\ mustSurvive' = SubSeq(hist, 1, synced)
    /\ hist' = SubSeq(hist, 1, synced)

\* a Write that appends the record and leaves pos alone
BufferedAtSamePos(data) ==
    LET n == Len(segments)
        e == Encode(data)
    IN  [Engine EXCEPT
            !.segments[n].offset = Append(@, [offset |-> segments[n].size,
                                              length |-> e.length]),
            !.segments[n].size = @ + blockSize + e.length,
            !.buffer = Append(@, Whole(e))]

\* the state of Write(data) after `w.buffer.Write(entry)`
Buffered(data) ==
    LET n == Len(segments)
        e == Encode(data)
    IN  [Engine EXCEPT
            !.pos = @ + 1,
            !.segments[n].offset = Append(@, [offset |-> segments[n].size,
                                              length |-> e.length]),
            !.segments[n].size = @ + blockSize + e.length,
            !.buffer = Append(@, Whole(e))]

reachedMaxWriteBufferSize(buf) == Bytes(buf) >= maxWriteBufferSize

\* WAL.Write up to its return or to the send it blocks in
Written(data) ==
    LET st == Buffered(data)
    IN  IF reachedMaxWriteBufferSize(st.buffer) THEN flushBuffer(st) ELSE st

\* WAL.Write.  With no segment (after Delete) CurrentSegment panics.
Write(data) ==
    /\ alive /\ ~blocked /\ nWrites < MaxWrites
    /\ nWrites' = nWrites + 1
    /\ UNCHANGED <<maxSegmentFile, maxFileLifetime, janitorSeg, janitorAt, writeAt, corrupted, nOpens>>
    /\ IF segments = <<>>
       THEN /\ Dies
            /\ last' = Op("Write", "panic", data, FALSE)
            /\ UNCHANGED <<disk, synced, retention, dropped>>
       ELSE LET st == Written(data)
            IN  /\ Store(st)
                /\ blocked' = st.blocked
                /\ Flushed(st, Append(hist, data))
                /\ last' = Op("Write", st.err, data, st.flushed)
                /\ IF st.err = "nil" /\ ~st.blocked
                   THEN \E got \in PutThenGet(st.buffer, pool) :
                            /\ buffer' = got[1]
                            /\ pool' = got[2]
                            /\ dropped' = (dropped \/ got[1] # st.buffer)
                   ELSE buffer' = st.buffer /\ pool' = pool /\ dropped' = dropped
                /\ UNCHANGED <<alive, lru, crashed, mustSurvive>>

\* WAL.ReadIndex.  The file branch opens the segment and closes it on return.
ReadIndex(index) ==
    /\ alive /\ ~blocked
    /\ LET hit == Cached(index) # {}
           walk == locate(index, 1, 0, 0)
           res == ReadIndexResult(index)
       IN  IF res.err = "panic"
           THEN /\ Dies
                /\ UNCHANGED last
           ELSE /\ lru' = IF hit THEN lruGet(index)
                          ELSE IF res.err = "nil" THEN lruAdd(index, res.entry)
                          ELSE lru
                /\ segments' = IF ~hit /\ walk.opened # 0
                               THEN SegmentClose(SegmentOpen(segments, walk.opened),
                                                 walk.opened)
                               ELSE segments
                /\ UNCHANGED <<last, alive, pool, crashed, mustSurvive, hist, blocked,
                               segmentIndex, segmentFile, buffer, pos,
                               segmentNotify>>
    /\ UNCHANGED <<disk, maxSegmentFile, maxFileLifetime, janitorSeg, janitorAt, writeAt, corrupted, synced, retention, dropped, nWrites,
                   nOpens>>

\* What WAL.Iter does with a callback that returns false on its stopAt-th call
IterResult(stopAt) == walkSegments(segments, 1, 1, <<>>, stopAt)

\* What WAL.IterReverse does with such a callback
IterReverseResult(stopAt) ==
    walkSegments(segments, Len(segments), -1, <<>>, stopAt)

Traverse(r) ==
    /\ alive /\ ~blocked
    /\ IF r.err = "panic"
       THEN /\ Dies
            /\ UNCHANGED last
       ELSE /\ segments' = r.segments
            /\ UNCHANGED <<alive, pool, crashed, mustSurvive, hist, blocked,
                           segmentIndex, segmentFile, buffer, pos,
                           segmentNotify, lru, last>>
    /\ UNCHANGED <<disk, maxSegmentFile, maxFileLifetime, janitorSeg, janitorAt, writeAt, corrupted, synced, retention, dropped, nWrites,
                   nOpens>>

\* WAL.Iter
Iter(stopAt) == Traverse(IterResult(stopAt))

\* WAL.IterReverse
IterReverse(stopAt) == Traverse(IterReverseResult(stopAt))

\* a call of the public WAL.Sync, which takes no lock (while a Write or Close
\* sits in its notification, `last` stays with that call)
CallSync ==
    /\ alive
    /\ IF segments = <<>>
       THEN /\ Dies
            /\ last' = Op("Sync", "panic", <<>>, FALSE)
            /\ UNCHANGED disk
       ELSE LET st == Sync(Engine)
            IN  /\ Store(st)
                /\ last' = IF blocked THEN last
                           ELSE Op("Sync", st.err, <<>>, FALSE)
                /\ UNCHANGED <<alive, pool, crashed, mustSurvive, hist, blocked,
                               buffer, lru>>
    /\ UNCHANGED <<maxSegmentFile, maxFileLifetime, janitorSeg, janitorAt, writeAt, corrupted, synced, retention, dropped, nWrites, nOpens>>

\* the loop of WAL.Close over the segments: writer.Flush, fd.Sync, fd.Close
RECURSIVE closeFrom(_, _)
closeFrom(st, i) ==
    IF i > Len(st.segments) THEN st
    ELSE LET seg == st.segments[i]
         IN  IF ~seg.fdOpen THEN [st EXCEPT !.err = "ErrClosed"]
             ELSE closeFrom([st EXCEPT !.disk[seg.index] = @ \o seg.writer,
                                       !.segments[i].writer = <<>>,
                                       !.segments[i].fdOpen = FALSE],
                            i + 1)

\* WAL.Close up to its return or to the send it blocks in
Closed ==
    LET st == flushBuffer(Engine)
    IN  IF st.err # "nil" \/ st.blocked THEN st ELSE closeFrom(st, 1)

\* WAL.Close.  The caller drops the engine afterwards, whatever Close returned.
Close ==
    /\ alive /\ ~blocked
    /\ IF segments = <<>>
       THEN /\ Dies
            /\ last' = Op("Close", "panic", <<>>, FALSE)
            /\ UNCHANGED <<disk, synced, retention>>
       ELSE LET st == Closed
            IN  /\ Store(st)
                /\ buffer' = st.buffer
                /\ blocked' = st.blocked
                /\ alive' = st.blocked
                /\ Flushed(st, hist)
                /\ last' = Op("Close", st.err, <<>>, st.flushed)
                /\ UNCHANGED <<pool, lru, crashed, mustSurvive>>
    /\ UNCHANGED <<maxSegmentFile, maxFileLifetime, janitorSeg, janitorAt, writeAt, corrupted, dropped, nWrites, nOpens>>

\* WAL.Delete, which takes no lock: the first fd.Close or os.Remove that fails
\* ends it with the list and pos as they were
RECURSIVE deleteFrom(_, _)
deleteFrom(st, i) ==
    IF i > Len(st.segments)
    THEN [st EXCEPT !.segments = <<>>, !.pos = 0]
    ELSE LET seg == st.segments[i]
             shut == [st EXCEPT !.segments[i].fdOpen = FALSE]
         IN  IF ~seg.fdOpen THEN [st EXCEPT !.err = "ErrClosed"]
             ELSE IF seg.index \notin DOMAIN st.disk
             THEN [shut EXCEPT !.err = "ErrNotExist"]
             ELSE deleteFrom([shut EXCEPT !.disk = WithoutFiles(@, {seg.index})],
                             i + 1)

Delete ==
    /\ alive
    /\ LET st == deleteFrom(Engine, 1)
       IN  /\ Store(st)
           /\ UNCHANGED last
           /\ hist' = IF st.err = "nil" THEN <<>> ELSE hist
           /\ synced' = IF st.err = "nil" THEN 0 ELSE synced
    /\ retention' = TRUE
    /\ UNCHANGED <<alive, buffer, pool, lru, blocked, maxSegmentFile, maxFileLifetime, janitorSeg, janitorAt, writeAt, corrupted, crashed,
                   dropped, mustSurvive, nWrites, nOpens>>

\* New: a new engine over the directory
New ==
    /\ ~alive /\ nOpens < MaxOpens
    /\ nOpens' = nOpens + 1
    /\ \E got \in Get(pool) :
         LET wal == [segments |-> <<>>, disk |-> disk, buffer |-> got[1],
                     pos |-> 0, segmentIndex |-> 0, segmentFile |-> 0,
                     segmentNotify |-> 0, err |-> "nil", blocked |-> FALSE,
                     flushed |-> FALSE, rotated |-> FALSE, cleared |-> FALSE]
             loaded == LoadSegments(wal)
         IN  /\ pool' = got[2]
             /\ last' = Op("New", loaded.err, <<>>, FALSE)
             /\ IF loaded.err # "nil"
                THEN NoEngine /\ UNCHANGED disk
                ELSE /\ Store(createSegment(loaded))
                     /\ buffer' = got[1]
                     /\ lru' = <<>>
                     /\ alive' = TRUE
                     /\ blocked' = FALSE
    /\ UNCHANGED <<maxSegmentFile, maxFileLifetime, janitorSeg, janitorAt, writeAt, corrupted, hist, synced, retention, crashed, dropped,
                   mustSurvive, nWrites>>

\* The janitor goroutine takes a notification (`case <-w.segmentNotify:
\* continue`).  A send that waited for room goes through then, and the Write
\* or Close that made it runs on to its return: Write exchanges its buffer
\* with the pool, Close goes through the segments.  The steps of the
\* janitor's loop, the expiry of its ticker included, are janitorRead,
\* janitorReceive and janitorExpire of ConcSpec.
janitor ==
    /\ alive /\ maxFileLifetime > 0 /\ segmentNotify >= 1
    /\ IF ~blocked
       THEN /\ segmentNotify' = segmentNotify - 1
            /\ UNCHANGED <<alive, disk, segments, segmentIndex, segmentFile,
                           buffer, pool, pos, blocked, last, dropped>>
       ELSE IF last.op = "Write"
       THEN /\ blocked' = FALSE
            /\ \E got \in PutThenGet(buffer, pool) :
                    /\ buffer' = got[1]
                    /\ pool' = got[2]
                    /\ dropped' = (dropped \/ got[1] # buffer)
            /\ UNCHANGED <<alive, disk, segments, segmentIndex, segmentFile,
                           pos, segmentNotify, last>>
       ELSE LET st == closeFrom(Engine, 1)
            IN  /\ Store(st)
                /\ blocked' = FALSE
                /\ alive' = FALSE
                /\ last' = Op("Close", st.err, <<>>, last.flushed)
                /\ UNCHANGED <<buffer, pool, dropped>>
    /\ UNCHANGED <<lru, maxSegmentFile, maxFileLifetime, janitorSeg, janitorAt, writeAt, hist, synced, retention,
                   crashed, corrupted, mustSurvive, nWrites, nOpens>>

\* the process is killed between two operations
Crash ==
    /\ alive
    /\ Dies
    /\ UNCHANGED <<disk, last, maxSegmentFile, maxFileLifetime, janitorSeg, janitorAt, writeAt, corrupted, synced, retention, dropped,
                   nWrites, nOpens>>

\* the first k bytes of a stream
RECURSIVE Prefix(_, _)
Prefix(chunks, k) ==
    IF k <= 0 \/ chunks = <<>> THEN <<>>
    ELSE IF chunks[1].n <= k
    THEN <<chunks[1]>> \o Prefix(Tail(chunks), k - chunks[1].n)
    ELSE <<[e |-> chunks[1].e, n |-> k]>>

\* where a write to the file can be cut: at a record boundary, inside a
\* header, right after a header, inside a payload
Cuts(chunks) ==
    {Start(chunks, i) + c : i \in 1..Len(chunks), c \in {0, 5, 16, 20}}
        \cap 0..Bytes(chunks)

\* the process is killed inside the flush of Write(data), after `cut` bytes
\* of the bufio.Writer reached the file
CrashInFlush(data, cut) ==
    /\ alive /\ ~blocked /\ nWrites < MaxWrites
    /\ segments # <<>>
    /\ LET st == Buffered(data)
           curr == st.segments[Len(st.segments)]
           pending == curr.writer \o st.buffer
       IN  /\ reachedMaxWriteBufferSize(st.buffer)
           /\ curr.fdOpen
           /\ cut \in Cuts(pending)
           /\ disk' = [disk EXCEPT ![curr.index] = @ \o Prefix(pending, cut)]
    /\ Dies
    /\ nWrites' = nWrites + 1
    /\ UNCHANGED <<last, maxSegmentFile, maxFileLifetime, janitorSeg, janitorAt, writeAt, corrupted, synced, retention, dropped, nOpens>>

\* one bit of byte j of a payload flipped: bit 1 of the first byte, bit 0 of
\* the last
FlipPayload(data, j) ==
    LET b == data[j]
    IN  [data EXCEPT ![j] = IF j = 1
                            THEN (IF (b \div 2) % 2 = 0 THEN b + 2 ELSE b - 2)
                            ELSE (IF b % 2 = 0 THEN b + 1 ELSE b - 1)]

\* bit 0 of the last byte of the header's checksum field flipped
FlipChecksum(c) == IF c % 2 = 0 THEN c + 1 ELSE c - 1

\* the bytes of a record that can be altered: of the payload (1..length) or
\* of the checksum field (0)
FlipAt(e) == {0} \cup (IF e.length > 0 THEN {1, e.length} ELSE {})

\* while no engine has the directory open, one byte of record k of file
\* `name` is altered: byte j of its payload, or its checksum field (j = 0)
Corrupt(name, k, j) ==
    /\ ~alive /\ ~corrupted /\ nOpens < MaxOpens
    /\ name \in DOMAIN disk
    /\ k \in 1..Len(disk[name])
    /\ LET c == disk[name][k]
       IN  /\ c.n = EntrySize(c.e)
           /\ j \in FlipAt(c.e)
           /\ disk' = [disk EXCEPT ![name][k].e =
                          IF j = 0
                          THEN [c.e EXCEPT !.checksum = FlipChecksum(@)]
                          ELSE [c.e EXCEPT !.data = FlipPayload(@, j)]]
    /\ corrupted' = TRUE
    /\ UNCHANGED <<alive, segments, segmentIndex, segmentFile, buffer, pool, lru,
                   pos, segmentNotify, blocked, maxSegmentFile, maxFileLifetime, janitorSeg, janitorAt, writeAt,
                   last, hist, synced, retention, crashed, dropped,
                   mustSurvive, nWrites, nOpens>>

-----------------------------------------------------------------------------
(* The state after New on an empty directory *)

Init ==
    /\ maxSegmentFile \in MaxSegmentFileChoices
    /\ maxFileLifetime \in MaxFileLifetimeChoices
    /\ alive = TRUE
    /\ disk = [i \in {0} |-> <<>>]
    /\ segments = <<[index |-> 0, size |-> 0, currSize |-> 0, offset |-> <<>>,
                     writer |-> <<>>, closed |-> FALSE, fdOpen |-> TRUE]>>
    /\ segmentIndex = 1
    /\ segmentFile = 1
    /\ buffer = <<>>
    /\ pool = {}
    /\ lru = <<>>
    /\ pos = 0
    /\ segmentNotify = 0
    /\ blocked = FALSE
    /\ last = Op("New", "nil", <<>>, FALSE)
    /\ dropped = FALSE
    /\ hist = <<>>
    /\ synced = 0
    /\ retention = FALSE
    /\ crashed = FALSE
    /\ corrupted = FALSE
    /\ mustSurvive = <<>>
    /\ janitorSeg = -1
    /\ janitorAt = IF maxFileLifetime > 0 THEN "top" ELSE "off"
    /\ writeAt = "idle"
    /\ nWrites = 0
    /\ nOpens = 0

Next ==
    \/ \E data \in Payloads(nWrites + 1) : Write(data)
    \/ \E index \in -1..pos : ReadIndex(index)
    \/ \E stopAt \in 0..pos : Iter(stopAt)
    \/ \E stopAt \in 0..pos : IterReverse(stopAt)
    \/ CallSync
    \/ Close
    \/ Delete
    \/ New
    \/ janitor
    \/ Crash
    \/ \E data \in Payloads(nWrites + 1) :
         \E cut \in Cuts(buffer \o <<Whole(Encode(data))>>) : CrashInFlush(data, cut)
    \/ \E name \in DOMAIN disk :
         \E k \in 1..Len(disk[name]) : \E j \in 0..8 : Corrupt(name, k, j)

Spec == Init /\ [][Next]_vars

\* the scheduler lets the janitor goroutine run whenever it can receive
LiveSpec == Spec /\ WF_vars(janitor)

-----------------------------------------------------------------------------
(* The position arithmetic of Write with payloads up to the 32-bit limit of
   the length field.  The numbers of this specification count units of 16
   bytes (blockSize), all its payload lengths being multiples of 16, so that
   the 2^32 at which a uint32 wraps is 2^28 units.  Write does its bookkeeping
   before any flush, and no flush changes positions or size; with the default
   maxSegmentSize of 20 MB the sizes below never rotate. *)

MaxWideWrites == 5

\* 2^32 bytes
Uint32InUnits == 65536 * 4096

\* blockSize
blockSizeInUnits == blockSize \div 16

\* payloads of 0 bytes, of 16 bytes and of 4 GiB - 16 bytes
WideLengths == {0, 1, Uint32InUnits - 1}

\* `length := uint32(len(data))`, the append to seg.offset and
\* `seg.size += int64(blockSize + length)`, the sum taken in uint32
WideWrite(length) ==
    /\ nWrites < MaxWideWrites
    /\ nWrites' = nWrites + 1
    /\ pos' = pos + 1
    /\ segments' = [segments EXCEPT
           ![1].offset = Append(@, [offset |-> segments[1].size,
                                    length |-> length % Uint32InUnits]),
           ![1].size = @ + ((blockSizeInUnits + (length % Uint32InUnits))
                               % Uint32InUnits)]
    /\ UNCHANGED <<alive, disk, segmentIndex, segmentFile, buffer, pool, lru,
                   segmentNotify, blocked, maxSegmentFile, maxFileLifetime, janitorSeg, janitorAt, writeAt,
                   last, hist, synced, retention, crashed, corrupted, dropped,
                   mustSurvive, nOpens>>

WideInit == Init /\ maxSegmentFile = 2 /\ maxFileLifetime = 0

WideNext == \E length \in WideLengths : WideWrite(length)

WideSpec == WideInit /\ [][WideNext]_vars

-----------------------------------------------------------------------------
(* The engine next to its janitor goroutine and to callers on other threads.
   New starts the janitor when maxFileLifetime > 0.  The janitor takes no lock,
   nor do Sync and Delete, so their statements fall between the statements of
   a Write that holds w.mu.  In this specification a Write whose flush retires
   the segments goes in three steps (deleteSegments has returned;
   createSegment has returned; the notification is sent and Write returns),
   and the janitor in the steps of its loop.  Time is left out: the ticker of
   the janitor can fire at any moment. *)

\* nextCleanup.Hour(), the hour of the day the ticker's interval is made of
TickerHours == {0, 1}

\* WAL.flushBuffer up to the return of deleteSegments, for a flush that
\* rotates and retires
flushedAndRetired(st) ==
    LET n == CurrentSegment(st)
        drained == [st EXCEPT !.segments[n].writer = @ \o st.buffer,
                              !.buffer = <<>>]
        written == Sync(drained)
    IN  deleteSegments([written EXCEPT !.flushed = TRUE, !.cleared = TRUE])

\* WAL.Write from its Lock to the return of deleteSegments in its flush
WriteRetire(data) ==
    /\ alive /\ writeAt = "idle" /\ nWrites < MaxWrites
    /\ segments # <<>>
    /\ Written(data).cleared
    /\ LET st == flushedAndRetired(Buffered(data))
       IN  /\ Store(st)
           /\ buffer' = st.buffer
           /\ Flushed(st, Append(hist, data))
           /\ last' = Op("Write", st.err, data, st.flushed)
    /\ writeAt' = "retired"
    /\ nWrites' = nWrites + 1
    /\ UNCHANGED <<alive, pool, lru, blocked, maxSegmentFile, maxFileLifetime,
                   crashed, corrupted, dropped, mustSurvive, janitorSeg,
                   janitorAt, nOpens>>

\* the createSegment of that flush
WriteCreate ==
    /\ alive /\ writeAt = "retired"
    /\ Store(createSegment(Engine))
    /\ writeAt' = "created"
    /\ UNCHANGED <<alive, buffer, pool, lru, blocked, maxSegmentFile,
                   maxFileLifetime, last, hist, synced, retention, crashed,
                   corrupted, dropped, mustSurvive, janitorSeg, janitorAt,
                   nWrites, nOpens>>

\* the send `w.segmentNotify <- true` of that flush, which waits for room in
\* the channel, and the rest of Write: the exchange of its buffer with the
\* pool and the Unlock
WriteNotify ==
    /\ alive /\ writeAt = "created"
    /\ segmentNotify < 1
    /\ segmentNotify' = segmentNotify + 1
    /\ writeAt' = "idle"
    /\ \E got \in PutThenGet(buffer, pool) :
            /\ buffer' = got[1]
            /\ pool' = got[2]
            /\ dropped' = (dropped \/ got[1] # buffer)
    /\ UNCHANGED <<alive, disk, segments, segmentIndex, segmentFile, lru, pos,
                   blocked, maxSegmentFile, maxFileLifetime, last, hist, synced,
                   retention, crashed, corrupted, mustSurvive, janitorSeg,
                   janitorAt, nWrites, nOpens>>

\* The top of the janitor's loop: `seg := w.segments[0]` panics on an empty
\* list, time.NewTicker on an interval of 0 hours; a panic ends the process.
janitorRead(hour) ==
    /\ alive /\ janitorAt = "top"
    /\ IF segments = <<>> \/ hour <= 0
       THEN /\ Dies
            /\ UNCHANGED <<janitorSeg, janitorAt>>
       ELSE /\ janitorSeg' = segments[1].index
            /\ janitorAt' = "select"
            /\ UNCHANGED <<alive, segments, segmentIndex, segmentFile, buffer,
                           pool, lru, pos, segmentNotify, blocked, hist,
                           crashed, mustSurvive>>
    /\ UNCHANGED <<disk, maxSegmentFile, maxFileLifetime, last, synced,
                   retention, corrupted, dropped, writeAt, nWrites, nOpens>>

\* `case <-w.segmentNotify: continue`
janitorReceive ==
    /\ alive /\ janitorAt = "select"
    /\ segmentNotify >= 1
    /\ segmentNotify' = segmentNotify - 1
    /\ janitorAt' = "top"
    /\ UNCHANGED <<alive, disk, segments, segmentIndex, segmentFile, buffer,
                   pool, lru, pos, blocked, maxSegmentFile, maxFileLifetime,
                   last, hist, synced, retention, crashed, corrupted, dropped,
                   mustSurvive, janitorSeg, writeAt, nWrites, nOpens>>

\* DefaultJanitorHook on the segment with index `index`: its handle is closed
\* and its file removed (a Remove that fails is logged)
DefaultJanitorHook(st, index) ==
    [st EXCEPT
        !.segments = [k \in 1..Len(st.segments) |->
                         IF st.segments[k].index = index
                         THEN [st.segments[k] EXCEPT !.fdOpen = FALSE]
                         ELSE st.segments[k]],
        !.disk = WithoutFiles(st.disk, {index})]

\* `case <-ticker.C: w.option.janitorHook(seg)`
janitorExpire ==
    /\ alive /\ janitorAt = "select"
    /\ Store(DefaultJanitorHook(Engine, janitorSeg))
    /\ janitorAt' = "top"
    /\ UNCHANGED <<alive, buffer, pool, lru, blocked, maxSegmentFile,
                   maxFileLifetime, last, hist, synced, retention, crashed,
                   corrupted, dropped, mustSurvive, janitorSeg, writeAt,
                   nWrites, nOpens>>

ConcInit == Init /\ maxFileLifetime > 0

ConcNext ==
    \/ \E data \in Payloads(nWrites + 1) :
         /\ writeAt = "idle"
         /\ IF segments = <<>> THEN TRUE ELSE ~Written(data).cleared
         /\ Write(data)
    \/ \E data \in Payloads(nWrites + 1) : WriteRetire(data)
    \/ WriteCreate
    \/ WriteNotify
    \/ \E index \in -1..pos : writeAt = "idle" /\ ReadIndex(index)
    \/ CallSync
    \/ Delete
    \/ \E hour \in TickerHours : janitorRead(hour)
    \/ janitorReceive
    \/ janitorExpire

ConcSpec == ConcInit /\ [][ConcNext]_vars

-----------------------------------------------------------------------------
(* Claims *)

\* a read returned `data` and no error
Returned(res, data) == res.err = "nil" /\ res.entry.Data = data

\* the data of what an iteration passed to the callback, in order
Payload(out) == [k \in 1..Len(out) |-> out[k].data]

\* the engine of the first process, with every record it was given still
\* held and the pool having handed back the buffer of every Write
Undisturbed ==
    alive /\ ~blocked /\ nOpens = 0 /\ ~retention /\ ~crashed /\ ~dropped

\* a step that is a Write which returned nil
WriteReturnedNil ==
    /\ nWrites' = nWrites + 1
    /\ alive' /\ ~blocked'
    /\ last'.op = "Write" /\ last'.err = "nil"

\* C1: within one process and with no retention event, ReadIndex(i) returns
\* the i-th written payload for every i in [0, N-1], whatever mix of flushed
\* and buffered records there is.  Stated for the runs in which the buffer
\* pool hands every buffer back, the claim fails there already.
C1_RoundTrip ==
    Undisturbed =>
        \A i \in 1..Len(hist) : Returned(ReadIndexResult(i - 1), hist[i])

\* C2: right after a successful Write(p), ReadIndex(CurrentPosition())
\* returns p.
C2_ReadBackLastWrite ==
    [][(WriteReturnedNil /\ ~dropped' /\ ~retention')
          => Returned(ReadIndexResult(CurrentPosition), last.arg)']_vars

\* C3: after N writes, a Close that returns nil and New on the same directory
\* (no retention event, no crash), New succeeds, CurrentPosition() = N-1 (so
\* that a further Write gets index N) and ReadIndex(i) returns the i-th
\* payload for every i in [0, N-1].
C3_PersistsAcrossRestart ==
    [][(/\ last.op = "Close" /\ last.err = "nil"
        /\ ~retention /\ ~crashed
        /\ last'.op = "New")
          => /\ last'.err = "nil"
             /\ alive'
             /\ CurrentPosition' = Len(hist) - 1
             /\ \A i \in 1..Len(hist) :
                    Returned(ReadIndexResult(i - 1), hist[i])']_vars

\* C4: after a crash at any point, in the middle of a flush too, New succeeds
\* and every record a completed flush covered is read back at its index (no
\* retention event).  Stated for the runs in which the buffer pool hands every
\* buffer back.
C4_CrashDurability ==
    (nOpens >= 1 /\ crashed /\ ~retention /\ ~dropped /\ last.op = "New") =>
        /\ last.err = "nil"
        /\ alive =>
            \A i \in 1..Len(mustSurvive) :
                Returned(ReadIndexResult(i - 1), mustSurvive[i])

\* C5: every record of the active segment whose offset is >= durable_size is
\* read from the buffer and ReadIndex returns its payload; a record counts as
\* buffer-resident iff its offset >= durable_size.
C5_BufferedRead ==
    (Undisturbed /\ segments # <<>>) =>
        LET n == Len(segments)
            seg == segments[n]
            base == Len(hist) - Len(seg.offset)
        IN  \A k \in 1..Len(seg.offset) :
                /\ OnActiveBuffer(seg, k) <=> (seg.offset[k].offset >= seg.currSize)
                /\ seg.offset[k].offset >= seg.currSize
                      => Returned(ReadIndexResult(base + k - 1), hist[base + k])

\* C6: Iter passes the written sequence to the callback, cut right after the
\* first record for which the callback returns false.
C6_IterInWriteOrder ==
    Undisturbed =>
        \A stopAt \in 0..Len(hist) :
            LET r == IterResult(stopAt)
            IN  /\ r.err = "nil"
                /\ Payload(r.out) = IF stopAt = 0 THEN hist
                                    ELSE SubSeq(hist, 1, stopAt)

\* the sequence in reverse
Reverse(seq) == [k \in 1..Len(seq) |-> seq[Len(seq) + 1 - k]]

\* C7: IterReverse passes payloads N-1, ..., 0 to a callback that always
\* returns true, and stops right after a false return.
C7_IterReverseOrder ==
    Undisturbed =>
        \A stopAt \in 0..Len(hist) :
            LET r == IterReverseResult(stopAt)
            IN  /\ r.err = "nil"
                /\ Payload(r.out) = IF stopAt = 0 THEN Reverse(hist)
                                    ELSE SubSeq(Reverse(hist), 1, stopAt)

\* a Write that returned, or that sits in the notification of its flush
WriteStep == alive /\ ~blocked /\ nWrites' = nWrites + 1 /\ alive'

\* a Close that returned, or that sits in the notification of its flush
CloseStep == alive /\ ~blocked /\ segments # <<>> /\ last'.op = "Close"

\* a file of a segment of the list is removed in the step
BulkCleared ==
    \E k \in 1..Len(segments) :
        segments[k].index \in DOMAIN disk /\ segments[k].index \notin DOMAIN disk'

\* C8, as the specification states it: if CurrentPosition() = p before a
\* successful Write, CurrentPosition() = p+1 after it.
C8_AlwaysPlusOne ==
    [][WriteReturnedNil => CurrentPosition' = CurrentPosition + 1]_vars

\* C8, amended: a successful Write whose flush does not bulk-clear the
\* segments raises CurrentPosition() by exactly 1; a successful Write whose
\* flush bulk-clears them leaves CurrentPosition() = -1.
C8_PlusOneUnlessCleared ==
    [][WriteReturnedNil
          => CurrentPosition' = IF BulkCleared THEN -1
                                ELSE CurrentPosition + 1]_vars

\* a Write after a bulk-clear has taken index 0 again
C8_Witness ==
    /\ alive /\ ~blocked /\ retention /\ segments # <<>>
    /\ last.op = "Write" /\ last.err = "nil"
    /\ nWrites >= 3 /\ CurrentPosition = 0

\* the logical size of the active segment that the flush of the step finds
SizeAtFlush ==
    segments[Len(segments)].size
        + (IF last'.op = "Write" THEN blockSize + Len(last'.arg) ELSE 0)

\* the engine as the flushBuffer of the step's Write or Close leaves it, before
\* Write exchanges its buffer with the pool
AtFlushReturn == IF last'.op = "Write" THEN Written(last'.arg) ELSE Closed

\* the step is a Write or a Close whose flush came past Sync, found the active
\* segment at maxSegmentSize or more, and returned no error
Rotates ==
    /\ WriteStep \/ CloseStep
    /\ last'.err = "nil" /\ last'.flushed
    /\ SizeAtFlush >= maxSegmentSize

\* C9: a flush that finds the active segment's logical size >= maxSegmentSize
\* creates a new, empty segment, ActiveSegmentIndex() goes up by exactly 1 and
\* the segment that was active is marked closed, the write buffer and the
\* file writer of that segment drained when flushBuffer returns; no other step of a Write or Close changes the
\* active segment, the active segment changes in no step of another
\* operation, and a segment that is no longer active gets no further append.
C9_Rotation ==
    [][/\ ((WriteStep \/ CloseStep) /\ segments # <<>> /\ last'.err = "nil")
          => LET n == Len(segments)
                 m == Len(segments')
             IN  IF Rotates
                 THEN /\ m >= 1
                      /\ ActiveSegmentIndex' = ActiveSegmentIndex + 1
                      /\ segments'[m].size = 0
                      /\ segments'[m].offset = <<>>
                      /\ ~segments'[m].closed
                      /\ AtFlushReturn.buffer = <<>>
                      /\ m >= 2
                          => /\ segments'[m - 1].index = segments[n].index
                             /\ segments'[m - 1].closed
                             /\ segments'[m - 1].size = SizeAtFlush
                             /\ segments'[m - 1].writer = <<>>
                 ELSE /\ m = n
                      /\ ActiveSegmentIndex' = ActiveSegmentIndex
       /\ (alive /\ alive' /\ segments # <<>> /\ segments' # <<>>
             /\ ActiveSegmentIndex' # ActiveSegmentIndex)
          => Rotates
       /\ (alive /\ alive')
          => \A k \in 1..(Len(segments) - 1) :
                 \A j \in 1..Len(segments') :
                     segments'[j].index = segments[k].index
                         => /\ segments'[j].offset = segments[k].offset
                            /\ segments'[j].size = segments[k].size
      ]_vars

\* a Write has rotated: segment 0 is kept, closed, next to the active segment 1
C9_Witness ==
    /\ alive /\ ~blocked /\ nOpens = 0
    /\ last.op = "Write" /\ last.err = "nil" /\ last.flushed
    /\ Len(segments) = 2
    /\ segments[1].closed /\ segments[1].size >= maxSegmentSize
    /\ ActiveSegmentIndex = 1 /\ segments[2].offset = <<>>

C11_HardCeiling ==
    (alive /\ maxSegmentFile >= 1) => Len(segments) <= maxSegmentFile

\* a New on a directory in which a record has been altered
NewOverCorruption == ~alive /\ corrupted /\ nOpens' = nOpens + 1

\* C12: when a byte of a record's payload or of its checksum field has been
\* altered in a segment file while no engine was open, the next New fails
\* with the checksum error and returns no engine.
C12_CRCDetection ==
    [][NewOverCorruption
          => (last'.op = "New" /\ last'.err = "checksum mismatch" /\ ~alive')]_vars

\* a New has refused a directory with an altered record
C12_Witness ==
    corrupted /\ ~alive /\ nOpens >= 1
        /\ last.op = "New" /\ last.err = "checksum mismatch"

\* the number of records the segments hold
RECURSIVE HeldIn(_)
HeldIn(segs) ==
    IF segs = <<>> THEN 0 ELSE Len(Head(segs).offset) + HeldIn(Tail(segs))

\* C13: in every state ReadIndex(i) returns NotFound and no record for every
\* i below 0 and every i from the number of records held on, also for the
\* indices that were valid before a bulk-clear or Delete.
C13_NotFound ==
    (alive /\ ~blocked) =>
        \A i \in {-1} \cup (HeldIn(segments)..MaxWrites) :
            ReadIndexResult(i) = Result("NotFound", NoEntry)

\* a call of Sync that returned (after another operation than Sync)
SyncStep == alive /\ alive' /\ last.op # "Sync" /\ last'.op = "Sync"

\* C14: after Sync returns without error every record written before is on
\* disk: the write buffer is empty and the durable size of the active segment
\* equals its logical size.
C14_SyncDrains ==
    [][(SyncStep /\ last'.err = "nil")
          => LET n == Len(segments')
             IN  /\ buffer' = <<>>
                 /\ segments'[n].currSize = segments'[n].size]_vars

C16_ClosePostcondition ==
    [][(CloseStep /\ ~blocked')
          => /\ last'.err = "nil"
             /\ buffer' = <<>>
             /\ \A k \in 1..Len(segments') :
                    segments'[k].writer = <<>> /\ ~segments'[k].fdOpen]_vars

\* C17: with maxSegmentFile = 0 the logs are kept: no rotation removes a
\* segment file or resets the logical position.
C17_ZeroKeepsLogs ==
    [][(maxSegmentFile = 0 /\ segments # <<>> /\ Rotates)
          => /\ DOMAIN disk \subseteq DOMAIN disk'
             /\ pos' >= pos
             /\ Len(segments') = Len(segments) + 1]_vars

\* C18: every Write eventually returns, whatever the number of rotations that
\* retire segments, with the janitor (maxFileLifetime > 0) and without it.
C18_WriteReturns == (blocked /\ last.op = "Write") ~> ~blocked

\* C19: between the public operations the segments list is never empty and
\* its last segment, the active one, has the highest index of all.
C19_OneActiveSegment ==
    alive =>
        /\ segments # <<>>
        /\ \A k \in 1..(Len(segments) - 1) :
               segments[k].index < segments[Len(segments)].index

\* C20: in every state and for every segment positions[0].offset = 0,
\* positions[i+1].offset = positions[i].offset + 16 + positions[i].length, and
\* size is positions.last.offset + 16 + positions.last.length, or 0 for a
\* segment without records.  In the units of WideSpec, where 16 bytes are 1.
C20_PositionTable ==
    \A k \in 1..Len(segments) :
        LET o == segments[k].offset
        IN  /\ o # <<>> => o[1].offset = 0
            /\ \A i \in 1..(Len(o) - 1) :
                   o[i + 1].offset = o[i].offset + blockSizeInUnits + o[i].length
            /\ segments[k].size =
                   IF o = <<>> THEN 0
                   ELSE o[Len(o)].offset + blockSizeInUnits + o[Len(o)].length

\* C21: in every state of an engine every segment's durable size (currSize)
\* is at most its logical size, for the segments written in this process and
\* for the segments recovery rebuilt from a file it accepted.
C21_DurableWithinSize ==
    alive => \A k \in 1..Len(segments) : segments[k].currSize <= segments[k].size

\* the file ends inside a record: in its header, right after the header of a
\* record with a payload, or inside the payload
Torn(f) == f # <<>> /\ f[Len(f)].n < EntrySize(f[Len(f)].e)

\* a New over a directory with a segment file that ends inside a record
NewOverTornFile ==
    ~alive /\ nOpens' = nOpens + 1 /\ \E name \in DOMAIN disk : Torn(disk[name])

\* C22: New fails on every directory with a segment file that does not end at
\* a record boundary: cut inside a header, inside a payload, or right after a
\* complete header whose payload of length > 0 is missing.
C22_TornTailRejected ==
    [][NewOverTornFile => (last'.op = "New" /\ last'.err # "nil" /\ ~alive')]_vars

\* the step is a ReadIndex, an Iter or an IterReverse that returned
ReadStep ==
    /\ alive'
    /\ \/ \E index \in -1..pos : ReadIndex(index)
       \/ \E stopAt \in 0..pos : Iter(stopAt)
       \/ \E stopAt \in 0..pos : IterReverse(stopAt)

\* C23: when ReadIndex, Iter or IterReverse returns, with or without an error,
\* every segment that was marked closed is marked closed and has no open file
\* handle, and every other segment, the active one when a record was read from
\* its file included, has its handle as it was: open and writable.
C23_ReadsKeepHandles ==
    [][ReadStep
          => /\ Len(segments') = Len(segments)
             /\ \A k \in 1..Len(segments) :
                    /\ segments'[k].closed = segments[k].closed
                    /\ segments'[k].fdOpen =
                           IF segments[k].closed THEN FALSE
                           ELSE segments[k].fdOpen]_vars

\* the janitor executes `seg := w.segments[0]`
JanitorReadStep == \E hour \in TickerHours : janitorRead(hour)

\* C24: under every interleaving of the janitor with Write, flush and
\* rotation, the segments list is non-empty whenever the janitor reads
\* segments[0]: its read never falls into the state of a rotation that
\* retires, in which the list has been emptied and the new segment is not
\* yet appended.
C24_JanitorSeesSegment ==
    [][(JanitorReadStep /\ writeAt = "retired") => segments # <<>>]_vars

\* the janitor's retention hook runs on the segment it took
HookStep == janitorExpire

\* C25: once the janitor's retention hook has removed the file of the oldest
\* segment, that segment is no longer in the segments list, and every segment
\* of the list has its file, so that no ReadIndex, Iter or Write addresses a
\* removed file and the janitor takes another segment next.
C25_HookRetiresSegment ==
    [][HookStep
          => \A k \in 1..Len(segments') :
                 /\ segments'[k].index # janitorSeg
                 /\ segments[k].index \in DOMAIN disk
                       => segments'[k].index \in DOMAIN disk']_vars

\* a step of a public Sync or of Delete
SyncOrDeleteStep == CallSync \/ Delete

\* C26: Write, Sync, Delete and Close change the engine's state under the
\* exclusive lock: no step of a Sync or a Delete falls inside the critical
\* section of a Write on another thread, which holds w.mu from its first
\* statement to its return.
C26_LockDiscipline ==
    [][SyncOrDeleteStep => writeAt = "idle"]_vars

\* C27: between the operations of an engine on which no retention event and
\* no restart has happened, the write buffer holds the bytes of the active
\* segment from its durable size to its logical size: its length is
\* size - currSize and it is shorter than maxWriteBufferSize; no byte of a
\* written record is lost when Write puts the buffer into the pool and takes
\* one again.
C27_WriteBuffer ==
    (alive /\ ~blocked /\ nOpens = 0 /\ ~retention /\ segments # <<>>
       /\ last.op \in {"New", "Write"} /\ last.err = "nil") =>
        LET curr == segments[Len(segments)]
        IN  /\ Bytes(buffer) = curr.size - curr.currSize
            /\ Bytes(buffer) < maxWriteBufferSize

\* C28: in every state of an engine each entry the LRU holds for a logical
\* index is the record the segments list holds at that index, so that a
\* ReadIndex answered from the cache returns what locating the index through
\* the segments returns; no entry outlives a bulk-clear or a Delete that
\* removed or replaced its record.  Stated for the indices the segments hold
\* and for the lookups through the segments that return a record, in the
\* runs in which the buffer pool hands every buffer back.
C28_LRUCoherence ==
    (alive /\ ~blocked /\ ~dropped) =>
        \A k \in 1..Len(lru) :
            LET found == locate(lru[k].key, 1, 0, 0).res
            IN  /\ lru[k].key \in 0..(HeldIn(segments) - 1)
                /\ found.err = "nil" => found.entry = lru[k].value

=============================================================================
